---- MODULE Spec2Model ----
(***************************************************************************)
(* Model of the news-consolidation pipeline of ifood-opcoes-adicionais:    *)
(* the five consolidation passes of src/src/consolidator.py applied in the *)
(* order of src/tasks.py, followed by the final filter.                    *)
(*                                                                         *)
(* A cell of a pandas DataFrame is modelled as a sequence of tokens: the   *)
(* token " " is one whitespace character, every other token is a chunk of  *)
(* non-whitespace text.  NULL is the missing value (None / NaN).           *)
(***************************************************************************)
EXTENDS Integers, Sequences, FiniteSets, TLC

VARIABLES pc, base, df, prev, inp, used, last

vars == <<pc, base, df, prev, inp, used, last>>

----------------------------------------------------------------------------
(* Bounds of the model *)

MaxId == 2
MaxHits == 2
MaxTotal == 3
MaxRows == 3
MaxRuns == 2
MaxLen == 2

----------------------------------------------------------------------------
(* Cell values *)

NULL == <<"<NA>">>
Str(s) == <<s>>
EMPTY == <<>>
BLANK == <<" ">>

iFood == Str("iFood")
Rappi == Str("Rappi")
Uber == Str("Uber")

w_marcas == {iFood, Rappi}

SEM_PORTA_VOZ == Str("Sem porta-voz")
NENHUM_PV == Str("Nenhum porta-voz identificado")
CONTEUDO_VAZIO == Str("Conteúdo Vazio")
ERRO_API == Str("Erro na API")
ERRO_DE_PROCESSAMENTO == Str("Erro de Processamento")
ERRO_NO_PROCESSAMENTO == Str("Erro no Processamento")
NAO == Str("NÃO")
INDEFINIDO == Str("INDEFINIDO")

Ids == 1..MaxId

TituloOf(id) == <<"Titulo", ToString(id)>>

----------------------------------------------------------------------------
(* pandas primitives *)

\* Series == scalar: a missing value on either side compares False
PdEq(a, b) == a # NULL /\ b # NULL /\ a = b

\* Series != scalar: the negation of ==, so a missing value compares True
PdNe(a, b) == ~PdEq(a, b)

\* Series.isna()
IsNa(a) == a = NULL

RECURSIVE LStrip(_)
LStrip(s) == IF s # <<>> /\ Head(s) = " " THEN LStrip(Tail(s)) ELSE s

RECURSIVE RStrip(_)
RStrip(s) == IF s # <<>> /\ s[Len(s)] = " " THEN RStrip(SubSeq(s, 1, Len(s) - 1)) ELSE s

\* Series.astype(str).str.strip(): a missing value becomes the text "None"
StrStrip(a) == IF a = NULL THEN Str("None") ELSE RStrip(LStrip(a))

\* boolean indexing df[mask]: the rows whose mask entry is true, in table
\* order; mask has one boolean per row
RECURSIVE SelectRows(_, _)
SelectRows(t, mask) ==
    IF t = <<>> THEN <<>>
    ELSE LET n == Len(t)
             init == SelectRows(SubSeq(t, 1, n - 1), mask)
         IN IF mask[n] THEN Append(init, t[n]) ELSE init

\* DataFrame.drop_duplicates(subset=...), keep='first': subset has the key of
\* each row; missing values are equal to each other.  (On a table with no
\* rows it returns a copy before it looks at the subset columns, so a missing
\* column raises KeyError only for a table with rows.)
DropDuplicates(t, subset) ==
    SelectRows(t, [i \in 1..Len(t) |-> \A j \in 1..(i - 1) : subset[j] # subset[i]])

----------------------------------------------------------------------------
(* src/src/consolidator.py *)

\* initialize_consolidated_df: the base columns plus Marca and the
\* consolidation columns, all missing
InitializeConsolidated(news) ==
    [i \in 1..Len(news) |->
        [Id |-> news[i], Titulo |-> TituloOf(news[i]), Marca |-> NULL,
         pv_cadastrados |-> NULL, pv_nao_cadastrados |-> NULL,
         nivel_protagonismo |-> NULL, texto_nota |-> NULL,
         Assunto |-> NULL, score_similaridade_assunto |-> NULL]]

HasId(t, id) == \E i \in 1..Len(t) : t[i].Id = id

\* base.iloc[0] of the rows with the given Id
FirstOfId(t, id) == t[CHOOSE i \in 1..Len(t) :
                        t[i].Id = id /\ \A j \in 1..(i - 1) : t[j].Id # id]

Max(S) == CHOOSE m \in S : \A k \in S : k <= m

\* what a pass hands back: the table, or an exception propagating to the caller
Returned(t) == [raised |-> FALSE, df |-> t]
Raised == [raised |-> TRUE, df |-> <<>>]

\* DataFrame.empty: no rows or no columns
IsEmpty(d) == d.rows = <<>> \/ d.cols = {}

\* a first pass that lets the 'no spokesperson' hits through
ValidSpokespersons_KeepAll(rows) == rows

\* consolidate_spokespersons, "Filtrar porta-vozes válidos"
ValidSpokespersons(rows) ==
    SelectRows(rows, [i \in 1..Len(rows) |-> PdNe(rows[i].Porta_Voz, SEM_PORTA_VOZ)])

\* a first pass that forgets to de-duplicate its hits
UniqueSpokespersons_KeepAll(rows) == rows

\* consolidate_spokespersons, "Remover duplicados"
UniqueSpokespersons(rows) ==
    DropDuplicates(rows, [i \in 1..Len(rows) |->
                            <<rows[i].Id, rows[i].Marca, rows[i].Porta_Voz>>])

\* the hits of the first pass whose Id has a row (match not empty)
MatchedSpokespersons(df_consolidated, df_unique) ==
    SelectRows(df_unique, [k \in 1..Len(df_unique) |->
                             HasId(df_consolidated, df_unique[k].Id)])

\* the clone of match.iloc[0] made for one hit of the first pass
SpokespersonRecord(record, h) ==
    [record EXCEPT !.Marca = h.Marca, !.pv_cadastrados = h.Porta_Voz]

\* a first pass that leaves the cloned base rows in the table
RemoveDuplicated_KeepAll(df_consolidated, duplicated_ids) == df_consolidated

\* a first pass that keeps the cloned base rows and drops the others
RemoveDuplicated_Inverted(df_consolidated, duplicated_ids) ==
    SelectRows(df_consolidated, [i \in 1..Len(df_consolidated) |->
                                   df_consolidated[i].Id \in duplicated_ids])

\* consolidate_spokespersons, "Remover originais que foram duplicados"
RemoveDuplicated(df_consolidated, duplicated_ids) ==
    SelectRows(df_consolidated, [i \in 1..Len(df_consolidated) |->
                                   df_consolidated[i].Id \notin duplicated_ids])

\* consolidate_spokespersons: first pass, one clone of the base row per
\* distinct (Id, Marca, Porta_Voz) hit, the cloned base rows removed
ConsolidateSpokespersons(news, d) ==
    IF "Porta_Voz" \notin d.cols THEN Raised
    ELSE IF ValidSpokespersons(d.rows) # <<>> /\ ~({"Id", "Marca"} \subseteq d.cols)
    THEN Raised
    ELSE
    LET df_consolidated == InitializeConsolidated(news)
        df_unique == UniqueSpokespersons(ValidSpokespersons(d.rows))
        matched == MatchedSpokespersons(df_consolidated, df_unique)
        duplicates == [k \in 1..Len(matched) |->
                         SpokespersonRecord(FirstOfId(df_consolidated, matched[k].Id),
                                            matched[k])]
        duplicated_ids == {matched[k].Id : k \in 1..Len(matched)}
    IN Returned(RemoveDuplicated(df_consolidated, duplicated_ids) \o duplicates)

\* an update that selects the rows by Id alone
Existing_AnyBrand(r, df_unique) ==
    {k \in 1..Len(df_unique) : r.Id = df_unique[k].Id}

\* the hits of df_unique whose (Id, Marca) selects the row r
Existing(r, df_unique) ==
    {k \in 1..Len(df_unique) :
        r.Id = df_unique[k].Id /\ PdEq(r.Marca, df_unique[k].Marca)}

\* the hits of df_unique that select no row but whose Id has a row
Creating(t, df_unique) ==
    SelectRows(df_unique, [k \in 1..Len(df_unique) |->
        /\ ~\E i \in 1..Len(t) :
              t[i].Id = df_unique[k].Id /\ PdEq(t[i].Marca, df_unique[k].Marca)
        /\ HasId(t, df_unique[k].Id)])

\* a second pass whose exclusion list misses the API-failure sentinel
RelevantUnregistered_NoApiError(rows) ==
    SelectRows(rows, [i \in 1..Len(rows) |->
        /\ PdNe(rows[i].Porta_Voz, NENHUM_PV)
        /\ PdNe(rows[i].Porta_Voz, CONTEUDO_VAZIO)
        /\ PdNe(rows[i].Porta_Voz, ERRO_DE_PROCESSAMENTO)])

\* consolidate_unregistered_spokespersons, "Filtrar relevantes"
RelevantUnregistered(rows) ==
    SelectRows(rows, [i \in 1..Len(rows) |->
        /\ PdNe(rows[i].Porta_Voz, NENHUM_PV)
        /\ PdNe(rows[i].Porta_Voz, CONTEUDO_VAZIO)
        /\ PdNe(rows[i].Porta_Voz, ERRO_API)
        /\ PdNe(rows[i].Porta_Voz, ERRO_DE_PROCESSAMENTO)])

UniqueUnregistered(rows) ==
    DropDuplicates(rows, [i \in 1..Len(rows) |->
                            <<rows[i].Id, rows[i].Marca, rows[i].Porta_Voz>>])

\* the clone of base.iloc[0] made for one hit of the second pass
UnregisteredRecord(record, h) ==
    [record EXCEPT !.Marca = h.Marca, !.pv_nao_cadastrados = h.Porta_Voz]

\* consolidate_unregistered_spokespersons: second pass, update or create
ConsolidateUnregistered(t, d) ==
    IF IsEmpty(d) \/ "Porta_Voz" \notin d.cols THEN Returned(t)
    ELSE IF RelevantUnregistered(d.rows) # <<>> /\ ~({"Id", "Marca"} \subseteq d.cols)
    THEN Raised
    ELSE
    LET df_unique == UniqueUnregistered(RelevantUnregistered(d.rows))
        updated == [i \in 1..Len(t) |->
                      LET m == Existing(t[i], df_unique)
                      IN IF m = {} THEN t[i]
                         ELSE [t[i] EXCEPT !.pv_nao_cadastrados = df_unique[Max(m)].Porta_Voz]]
        creating == Creating(t, df_unique)
        new_records == [k \in 1..Len(creating) |->
                          UnregisteredRecord(FirstOfId(t, creating[k].Id), creating[k])]
    IN Returned(updated \o new_records)

UniqueProtagonist(rows) ==
    DropDuplicates(rows, [i \in 1..Len(rows) |->
                            <<rows[i].Id, rows[i].Marca, rows[i].Nivel>>])

\* a third pass whose new row inherits the spokesperson fields of the clone
ProtagonistRecord_Inherit(record, h) ==
    [record EXCEPT !.Marca = h.Marca, !.nivel_protagonismo = h.Nivel]

\* the clone of base.iloc[0] made for one hit of the third pass: it starts
\* with both spokesperson fields empty
ProtagonistRecord(record, h) ==
    [record EXCEPT !.Marca = h.Marca, !.nivel_protagonismo = h.Nivel,
                   !.pv_cadastrados = EMPTY, !.pv_nao_cadastrados = EMPTY]

\* consolidate_protagonist_level: third pass, update or create
ConsolidateProtagonistLevel(t, d) ==
    IF IsEmpty(d) \/ "Nivel" \notin d.cols THEN Returned(t)
    ELSE IF ~({"Id", "Marca"} \subseteq d.cols) THEN Raised
    ELSE
    LET df_unique == UniqueProtagonist(d.rows)
        updated == [i \in 1..Len(t) |->
                      LET m == Existing(t[i], df_unique)
                      IN IF m = {} THEN t[i]
                         ELSE [t[i] EXCEPT !.nivel_protagonismo = df_unique[Max(m)].Nivel]]
        creating == Creating(t, df_unique)
        new_records == [k \in 1..Len(creating) |->
                          ProtagonistRecord(FirstOfId(t, creating[k].Id), creating[k])]
    IN Returned(updated \o new_records)

UniqueNotes(rows) ==
    DropDuplicates(rows, [i \in 1..Len(rows) |-> <<rows[i].Id, rows[i].Marca>>])

\* the clone of base.iloc[0] made for one hit of the fourth pass
NoteRecord(record, h) ==
    [record EXCEPT !.Marca = h.Marca, !.texto_nota = h.Texto_Nota]

\* consolidate_notes: fourth pass, update or create
ConsolidateNotes(t, d) ==
    IF IsEmpty(d) THEN Returned(t)
    ELSE IF ~({"Id", "Marca", "Texto_Nota"} \subseteq d.cols) THEN Raised
    ELSE
    LET df_unique == UniqueNotes(d.rows)
        updated == [i \in 1..Len(t) |->
                      LET m == Existing(t[i], df_unique)
                      IN IF m = {} THEN t[i]
                         ELSE [t[i] EXCEPT !.texto_nota = df_unique[Max(m)].Texto_Nota]]
        creating == Creating(t, df_unique)
        new_records == [k \in 1..Len(creating) |->
                          NoteRecord(FirstOfId(t, creating[k].Id), creating[k])]
    IN Returned(updated \o new_records)

Min(S) == CHOOSE m \in S : \A k \in S : m <= k

\* a subject map in which the first row of an Id wins
AssuntoMap_FirstWins(rows) ==
    [id \in {rows[k].Id : k \in 1..Len(rows)} |->
        rows[Min({k \in 1..Len(rows) : rows[k].Id = id})].Assunto]

\* df_subjects.set_index('Id')['Assunto'].to_dict(): the last row of an Id wins
AssuntoMap(rows) ==
    [id \in {rows[k].Id : k \in 1..Len(rows)} |->
        rows[Max({k \in 1..Len(rows) : rows[k].Id = id})].Assunto]

\* consolidate_subjects, the loop body: Assunto of one row after the pass
SubjectRow(r, assunto_map) ==
    IF r.Id \in DOMAIN assunto_map /\ assunto_map[r.Id] # NULL
    THEN [r EXCEPT !.Assunto = assunto_map[r.Id]]
    ELSE r

\* consolidate_subjects: fifth pass, overwrites Assunto of every row of an Id
ConsolidateSubjects(t, d) ==
    IF IsEmpty(d) \/ "Assunto" \notin d.cols THEN Returned(t)
    ELSE IF ~({"Id", "Assunto"} \subseteq d.cols) THEN Returned(t)
    ELSE Returned([i \in 1..Len(t) |-> SubjectRow(t[i], AssuntoMap(d.rows))])

\* filter_and_save_consolidated: cond_nao and cond_vazio of one row
CondNao(r) == PdEq(r.Marca, NAO)

\* a blank test that forgets to strip the text
CondVazio_NoStrip(r) == IsNa(r.Marca) \/ r.Marca = EMPTY

CondVazio(r) == IsNa(r.Marca) \/ StrStrip(r.Marca) = EMPTY

\* filter_and_save_consolidated: drops the rows whose Marca is "NÃO",
\* missing or blank
FilterConsolidated(t) ==
    SelectRows(t, [i \in 1..Len(t) |-> ~(CondNao(t[i]) \/ CondVazio(t[i]))])

----------------------------------------------------------------------------
(* src/src/unregistered_spokesperson_finder.py *)

\* find_unregistered, final filtering of the classifier's results: drops the
\* processing-error rows, then the rows whose Marca is not a valid brand
FindUnregisteredFilter(d) ==
    LET kept == IF d.rows # <<>> /\ "Porta_Voz" \in d.cols
                THEN SelectRows(d.rows, [i \in 1..Len(d.rows) |->
                        PdNe(d.rows[i].Porta_Voz, ERRO_NO_PROCESSAMENTO)])
                ELSE d.rows
    IN IF kept # <<>> /\ "Marca" \in d.cols
       THEN [d EXCEPT !.rows = SelectRows(kept, [i \in 1..Len(kept) |->
                                               kept[i].Marca \in w_marcas])]
       ELSE [d EXCEPT !.rows = kept]

----------------------------------------------------------------------------
(* The inputs of the passes: what the detection and classifier stages hand  *)
(* to the consolidator                                                      *)

\* the sequences over S of length at most n
SeqsUpTo(S, n) == UNION {[1..k -> S] : k \in 0..n}

Frame(cols, rows) == [cols |-> cols, rows |-> rows]

\* a frame with every column, or a frame that lacks one column
Frames(cols, S, n) ==
    {Frame(cols, r) : r \in SeqsUpTo(S, n)}
    \cup {Frame(cols \ {c}, r) : c \in cols, r \in SeqsUpTo(S, IF n > 0 THEN 1 ELSE 0)}
    \cup {Frame({}, <<>>)}

\* Every pass treats a hit by its own fields, so the values the passes drop
\* or pass through row by row (sentinels, a missing or unlisted brand) are
\* drawn for the last identifier only: it is an entity of the largest news
\* table and a stranger to the smaller ones. The values that meet each other
\* in a key are drawn for every identifier.
SpokespersonHits ==
    {[Id |-> i, Marca |-> v[1], Porta_Voz |-> v[2]] :
        i \in Ids, v \in {<<iFood, Str("Ana")>>}}
    \cup {[Id |-> MaxId, Marca |-> v[1], Porta_Voz |-> v[2]] :
        v \in {<<iFood, Str("Bob")>>, <<NULL, Str("Carla")>>, <<NULL, SEM_PORTA_VOZ>>}}

UnregisteredHits ==
    {[Id |-> i, Marca |-> v[1], Porta_Voz |-> v[2]] :
        i \in Ids, v \in {<<iFood, Str("Dan")>>, <<Rappi, Str("Dan")>>}}
    \cup {[Id |-> MaxId, Marca |-> v[1], Porta_Voz |-> v[2]] :
        v \in {<<Rappi, Str("Eva")>>, <<Uber, Str("Dan")>>,
               <<NULL, NENHUM_PV>>, <<Rappi, NENHUM_PV>>,
               <<Rappi, CONTEUDO_VAZIO>>, <<Rappi, ERRO_API>>,
               <<Rappi, ERRO_DE_PROCESSAMENTO>>,
               <<Rappi, ERRO_NO_PROCESSAMENTO>>}}

ProtagonistHits ==
    {[Id |-> i, Marca |-> v[1], Nivel |-> v[2]] :
        i \in Ids, v \in {<<iFood, Str("Protagonista")>>, <<Rappi, Str("Figurante")>>}}
    \cup {[Id |-> MaxId, Marca |-> v[1], Nivel |-> v[2]] :
        v \in {<<Rappi, Str("Protagonista")>>, <<NULL, Str("Figurante")>>,
               <<iFood, ERRO_API>>, <<INDEFINIDO, INDEFINIDO>>}}

NoteHits ==
    {[Id |-> i, Marca |-> v[1], Texto_Nota |-> v[2]] :
        i \in Ids, v \in {<<iFood, Str("nota1")>>, <<Rappi, Str("nota2")>>}}
    \cup {[Id |-> MaxId, Marca |-> v[1], Texto_Nota |-> v[2]] :
        v \in {<<NAO, NULL>>, <<BLANK, Str("nota1")>>, <<EMPTY, Str("nota1")>>}}

SubjectHits ==
    {[Id |-> i, Assunto |-> Str("assunto1")] : i \in Ids}
    \cup {[Id |-> MaxId, Assunto |-> Str("assunto2")]}

\* the news table: entities 1..n, identifiers unique
Bases == {[i \in 1..n |-> i] : n \in 1..MaxId}

Budget == IF MaxTotal - used < MaxHits THEN MaxTotal - used ELSE MaxHits

----------------------------------------------------------------------------
(* The pipeline of src/tasks.py, steps 8 to 13 *)

Init ==
    /\ pc = "pass1"
    /\ base \in Bases
    /\ df = <<>>
    /\ prev = <<>>
    /\ inp = Frame({}, <<>>)
    /\ used = 0
    /\ last = "start"

\* one consolidation step: the table before, the input, and the outcome
Step(next, before, d, res) ==
    /\ last' = pc
    /\ prev' = before
    /\ inp' = d
    /\ used' = used + Len(d.rows)
    /\ UNCHANGED base
    /\ IF res.raised
       THEN pc' = "failed" /\ df' = df
       ELSE pc' = next /\ df' = res.df

Pass1 ==
    /\ pc = "pass1"
    /\ \E d \in Frames({"Id", "Marca", "Porta_Voz"}, SpokespersonHits, Budget) :
          Step("pass2", InitializeConsolidated(base), d,
               ConsolidateSpokespersons(base, d))

Pass2 ==
    /\ pc = "pass2"
    /\ \E d \in Frames({"Id", "Marca", "Porta_Voz"}, UnregisteredHits, Budget) :
          Step("pass3", df, d,
               ConsolidateUnregistered(df, FindUnregisteredFilter(d)))

Pass3 ==
    /\ pc = "pass3"
    /\ \E d \in Frames({"Id", "Marca", "Nivel"}, ProtagonistHits, Budget) :
          Step("pass4", df, d, ConsolidateProtagonistLevel(df, d))

Pass4 ==
    /\ pc = "pass4"
    /\ \E d \in Frames({"Id", "Marca", "Texto_Nota"}, NoteHits, Budget) :
          Step("pass5", df, d, ConsolidateNotes(df, d))

Pass5 ==
    /\ pc = "pass5"
    /\ \E d \in Frames({"Id", "Assunto"}, SubjectHits, Budget) :
          Step("filter", df, d, ConsolidateSubjects(df, d))

Filter ==
    /\ pc = "filter"
    /\ pc' = "filtered"
    /\ prev' = df
    /\ df' = FilterConsolidated(df)
    /\ last' = pc
    /\ inp' = Frame({}, <<>>)
    /\ UNCHANGED <<base, used>>

Next == Pass1 \/ Pass2 \/ Pass3 \/ Pass4 \/ Pass5 \/ Filter

Spec == Init /\ [][Next]_vars

TypeOK ==
    /\ pc \in {"pass1", "pass2", "pass3", "pass4", "pass5", "filter", "filtered", "failed"}
    /\ used \in 0..MaxTotal

----------------------------------------------------------------------------
(* Properties *)

Rows(t) == 1..Len(t)

BaseIds == {base[i] : i \in Rows(base)}

\* a pass has just returned (the table is the pass's result)
Passed(p) == last = p /\ pc # "failed"

\* the table is the result of some pass, the filter not yet applied
AfterPass == pc \in {"pass2", "pass3", "pass4", "pass5", "filter"}

SameKey(r1, r2) == r1.Id = r2.Id /\ r1.Marca = r2.Marca

\* the untouched base row of an entity: no brand, no enrichment
IsPlaceholder(r) ==
    /\ r.Marca = NULL
    /\ r.pv_cadastrados = NULL /\ r.pv_nao_cadastrados = NULL
    /\ r.nivel_protagonismo = NULL /\ r.texto_nota = NULL

\* C1 (as claimed): in the filtered consolidated table no two rows share the
\* same (Id, Marca) pair.
C1_Original ==
    pc = "filtered" =>
        \A i, j \in Rows(df) : i # j => ~SameKey(df[i], df[j])

\* C1 (amended): in the filtered consolidated table no two rows share the
\* same (Id, Marca, pv_cadastrados, pv_nao_cadastrados, nivel_protagonismo):
\* rows that share an (Id, Marca) pair come from several hits of one pass
\* and differ in the field that pass sets.
C1_Amended ==
    pc = "filtered" =>
        \A i, j \in Rows(df) : i # j =>
            <<df[i].Id, df[i].Marca, df[i].pv_cadastrados,
              df[i].pv_nao_cadastrados, df[i].nivel_protagonismo>>
            # <<df[j].Id, df[j].Marca, df[j].pv_cadastrados,
                df[j].pv_nao_cadastrados, df[j].nivel_protagonismo>>

C1_Witness ==
    /\ pc = "filtered"
    /\ \E i, j \in Rows(df) : i # j /\ SameKey(df[i], df[j])

NoBrandedWithPlaceholder ==
    \A i, j \in Rows(df) :
        df[i].Id = df[j].Id => ~(df[i].Marca # NULL /\ IsPlaceholder(df[j]))

\* C2 (as claimed): after each pass no entity has both a row with a brand
\* and its unclaimed placeholder row.
C2_Original == AfterPass => NoBrandedWithPlaceholder

\* C2 (amended): no entity has both a row with a brand and its unclaimed
\* placeholder row after pass 1 and after the final filter; passes 2, 3 and
\* 4 never remove a placeholder: it stays where it was, next to the rows
\* they add for the entity.
C2_Amended ==
    /\ (Passed("pass1") \/ pc = "filtered") => NoBrandedWithPlaceholder
    /\ (Passed("pass2") \/ Passed("pass3") \/ Passed("pass4")) =>
          \A i \in Rows(prev) : IsPlaceholder(prev[i]) => df[i] = prev[i]

C2_Witness ==
    /\ Passed("pass2")
    /\ \E i \in Rows(prev), j \in Rows(df) :
          /\ j > Len(prev)
          /\ IsPlaceholder(df[i])
          /\ df[j].Id = df[i].Id /\ df[j].Marca # NULL

\* C3 (as claimed): after pass 1, an entity that received a hit matching a
\* base row has no row with a missing Marca.
C3_Claim ==
    Passed("pass1") =>
        \A k \in Rows(inp.rows) :
            (PdNe(inp.rows[k].Porta_Voz, SEM_PORTA_VOZ) /\ inp.rows[k].Id \in BaseIds) =>
                ~\E i \in Rows(df) : df[i].Id = inp.rows[k].Id /\ df[i].Marca = NULL

\* the rows a pass appended to the table
NewRows == {j \in Rows(df) : j > Len(prev)}

\* no text in a cell: missing or the empty string
NoValue(c) == c = NULL \/ c = EMPTY

\* C4 (as claimed): a row created by the unregistered-spokesperson pass or by
\* the note pass has the base attributes of its entity, the brand and the
\* value of a hit of the pass, and no value in its other enrichment fields.
C4_Claim ==
    /\ Passed("pass2") =>
          \A j \in NewRows :
              /\ df[j].Titulo = TituloOf(df[j].Id)
              /\ \E k \in Rows(inp.rows) :
                    /\ inp.rows[k].Id = df[j].Id
                    /\ inp.rows[k].Marca = df[j].Marca
                    /\ inp.rows[k].Porta_Voz = df[j].pv_nao_cadastrados
              /\ NoValue(df[j].pv_cadastrados)
              /\ NoValue(df[j].nivel_protagonismo)
              /\ NoValue(df[j].texto_nota)
    /\ Passed("pass4") =>
          \A j \in NewRows :
              /\ df[j].Titulo = TituloOf(df[j].Id)
              /\ \E k \in Rows(inp.rows) :
                    /\ inp.rows[k].Id = df[j].Id
                    /\ inp.rows[k].Marca = df[j].Marca
                    /\ inp.rows[k].Texto_Nota = df[j].texto_nota
              /\ NoValue(df[j].pv_cadastrados)
              /\ NoValue(df[j].pv_nao_cadastrados)
              /\ NoValue(df[j].nivel_protagonismo)

\* the distinct hits of the last input, and those that select a row of prev
Hits == {inp.rows[k] : k \in Rows(inp.rows)}

Selects(h, r) == r.Id = h.Id /\ r.Marca # NULL /\ r.Marca = h.Marca

CreateHits ==
    {h \in Hits : /\ \E i \in Rows(prev) : prev[i].Id = h.Id
                  /\ ~\E i \in Rows(prev) : Selects(h, prev[i])}

\* C5: in the prominence pass every hit (Id, Marca, Nivel) that selects no
\* row but whose Id has a row adds exactly one row with that Id, Marca and
\* Nivel, with both spokesperson fields the empty string; nothing else is
\* added, the rows that were in the table keep their place, and each is
\* unchanged unless a hit selects it, which changes its nivel_protagonismo only.
C5_Theorem ==
    (Passed("pass3") /\ {"Id", "Marca", "Nivel"} \subseteq inp.cols) =>
        /\ \A h \in CreateHits :
              /\ Cardinality({j \in NewRows :
                     /\ df[j].Id = h.Id /\ df[j].Marca = h.Marca
                     /\ df[j].nivel_protagonismo = h.Nivel}) = 1
              /\ \A j \in NewRows :
                     (df[j].Id = h.Id /\ df[j].Marca = h.Marca) =>
                         /\ df[j].pv_cadastrados = EMPTY
                         /\ df[j].pv_nao_cadastrados = EMPTY
                         /\ df[j].Titulo = TituloOf(h.Id)
        /\ Cardinality(NewRows) = Cardinality(CreateHits)
        /\ \A i \in Rows(prev) :
              IF \E h \in Hits : Selects(h, prev[i])
              THEN df[i] = [prev[i] EXCEPT !.nivel_protagonismo = df[i].nivel_protagonismo]
              ELSE df[i] = prev[i]

C5_Witness ==
    /\ Passed("pass3")
    /\ \E j \in NewRows :
          /\ df[j].pv_cadastrados = EMPTY
          /\ \E i \in Rows(prev) :
                prev[i].Id = df[j].Id /\ ~NoValue(prev[i].pv_cadastrados)

\* C6: after every pass the identifiers in the consolidated table are
\* exactly the identifiers of the news table.
C6_Theorem == AfterPass => {df[i].Id : i \in Rows(df)} = BaseIds

C6_Witness ==
    /\ Passed("pass1")
    /\ \E k \in Rows(inp.rows) :
          inp.rows[k].Id \notin BaseIds /\ inp.rows[k].Porta_Voz # SEM_PORTA_VOZ

Required(p) ==
    CASE p = "pass1" -> {"Id", "Marca", "Porta_Voz"}
      [] p = "pass2" -> {"Id", "Marca", "Porta_Voz"}
      [] p = "pass3" -> {"Id", "Marca", "Nivel"}
      [] p = "pass4" -> {"Id", "Marca", "Texto_Nota"}
      [] p = "pass5" -> {"Id", "Assunto"}

Following(p) ==
    CASE p = "pass1" -> "pass2"
      [] p = "pass2" -> "pass3"
      [] p = "pass3" -> "pass4"
      [] p = "pass4" -> "pass5"
      [] p = "pass5" -> "filter"

\* C7 (as claimed): a pass whose input lacks a required column returns the
\* table unchanged without raising, and the pipeline goes on to the next pass.
C7_Claim ==
    \A p \in {"pass1", "pass2", "pass3", "pass4", "pass5"} :
        (last = p /\ ~(Required(p) \subseteq inp.cols)) =>
            (pc = Following(p) /\ df = prev)

Sentinels == {NENHUM_PV, CONTEUDO_VAZIO, ERRO_API, ERRO_DE_PROCESSAMENTO}

\* the strings the classifier stage and the pass together exclude
Excluded == Sentinels \cup {ERRO_NO_PROCESSAMENTO}

\* the hits the unregistered-spokesperson pass is to apply, given the
\* strings excluded as values
Applicable(excl) == {h \in Hits : h.Porta_Voz \notin excl /\ h.Marca \in w_marcas}

\* the unregistered-spokesperson pass applies exactly the distinct hits
\* whose Porta_Voz is not in excl and whose Marca is a valid brand: each such
\* hit that selects no row (its Id having one) adds one row, each row such
\* hits select gets the Porta_Voz of one of them, and nothing else changes;
\* no string of excl is written and no row of another brand is created or
\* updated
AppliesExactly(excl) ==
    (Passed("pass2") /\ {"Id", "Marca", "Porta_Voz"} \subseteq inp.cols) =>
        /\ \A i \in Rows(df) : df[i].pv_nao_cadastrados \notin excl
        /\ \A j \in NewRows :
              /\ df[j].Marca \in w_marcas
              /\ \E h \in Applicable(excl) \cap CreateHits :
                    /\ h.Id = df[j].Id /\ h.Marca = df[j].Marca
                    /\ h.Porta_Voz = df[j].pv_nao_cadastrados
        /\ \A h \in Applicable(excl) \cap CreateHits :
              Cardinality({j \in NewRows :
                  /\ h.Id = df[j].Id /\ h.Marca = df[j].Marca
                  /\ h.Porta_Voz = df[j].pv_nao_cadastrados}) = 1
        /\ Cardinality(NewRows) = Cardinality(Applicable(excl) \cap CreateHits)
        /\ \A i \in Rows(prev) :
              IF \E h \in Applicable(excl) : Selects(h, prev[i])
              THEN \E h \in Applicable(excl) :
                      /\ Selects(h, prev[i])
                      /\ df[i] = [prev[i] EXCEPT !.pv_nao_cadastrados = h.Porta_Voz]
              ELSE df[i] = prev[i]

\* C8 (as claimed): the hits applied by the unregistered-spokesperson pass
\* are exactly the distinct hits whose value is none of the four sentinels
\* and whose brand is a valid brand.
C8_Original == AppliesExactly(Sentinels)

\* C8 (amended): the hits applied are exactly the distinct hits whose value
\* is none of the four sentinels nor "Erro no Processamento", and whose
\* brand is a valid brand; none of these five strings is written and no row
\* of another brand is created or updated.
C8_Amended == AppliesExactly(Excluded)

C8_Witness ==
    /\ Passed("pass2")
    /\ \E h \in Hits : h.Porta_Voz = ERRO_NO_PROCESSAMENTO /\ h.Marca \in w_marcas /\ h.Id \in BaseIds
    /\ \E h \in Hits : h.Porta_Voz \notin Excluded /\ h.Marca \in w_marcas /\ h.Id \in BaseIds
    /\ Len(df) > Len(prev)

\* the Assunto of the last row of the subject source with the given Id
LastAssunto(id) ==
    LET k == CHOOSE k \in Rows(inp.rows) :
                 /\ inp.rows[k].Id = id
                 /\ \A m \in Rows(inp.rows) : m > k => inp.rows[m].Id # id
    IN inp.rows[k].Assunto

\* C9: after the subject pass every row whose Id is in the subject source
\* has the Assunto of the last source row of that Id, whatever its Marca;
\* its other fields, the other rows and the number of rows are unchanged.
C9_Theorem ==
    (Passed("pass5") /\ {"Id", "Assunto"} \subseteq inp.cols) =>
        /\ Len(df) = Len(prev)
        /\ \A i \in Rows(prev) :
              IF \E k \in Rows(inp.rows) : inp.rows[k].Id = prev[i].Id
              THEN df[i] = [prev[i] EXCEPT !.Assunto = LastAssunto(prev[i].Id)]
              ELSE df[i] = prev[i]

C9_Witness ==
    /\ Passed("pass5")
    /\ Len(inp.rows) = 2
    /\ inp.rows[1].Id = inp.rows[2].Id
    /\ inp.rows[1].Assunto # inp.rows[2].Assunto
    /\ \E i, j \in Rows(df) :
          /\ df[i].Id = inp.rows[2].Id /\ df[j].Id = inp.rows[2].Id
          /\ df[i].Marca # df[j].Marca
          /\ df[i].Assunto = inp.rows[2].Assunto
          /\ df[j].Assunto = inp.rows[2].Assunto

\* a brand the filter keeps: present, not the "NÃO" sentinel, and with some
\* character that is not whitespace
ValidBrand(m) ==
    /\ m # NULL
    /\ m # NAO
    /\ \E k \in 1..Len(m) : m[k] # " "

KeptRows == {i \in Rows(prev) : ValidBrand(prev[i].Marca)}

\* C10: the filtered table is the sequence of the rows of the table before
\* the filter whose brand is present, not blank and not "NÃO", in the same
\* order and unchanged.
C10_Theorem ==
    pc = "filtered" =>
        /\ Len(df) = Cardinality(KeptRows)
        /\ \A j \in Rows(df) :
              \E i \in KeptRows :
                  /\ Cardinality({k \in KeptRows : k <= i}) = j
                  /\ df[j] = prev[i]

C10_Witness ==
    /\ pc = "filtered"
    /\ \E i \in Rows(prev) : prev[i].Marca = NULL
    /\ \E i \in Rows(prev) : prev[i].Marca = NAO
    /\ \E i \in Rows(prev) : prev[i].Marca = BLANK
    /\ \E i \in Rows(prev) : ValidBrand(prev[i].Marca)
    /\ Len(df) >= 1

----------------------------------------------------------------------------
(* src/src/batch_update_creator.py: the pivot of the consolidated file      *)

\* a missing identifier (NaN in the Id column)
NaId == 0

Range(s) == {s[i] : i \in 1..Len(s)}

ORIGINAL_COLUMNS ==
    <<"Id", "Titulo", "Midia", "Conteudo", "UrlVisualizacao", "DataVeiculacao",
      "Veiculo", "Canais", "ClassificacaoVeiculo", "Avaliacao">>

CONSOLIDATION_COLUMNS ==
    <<"pv_cadastrados", "pv_nao_cadastrados", "nivel_protagonismo",
      "texto_nota", "Assunto", "score_similaridade_assunto">>

\* the columns of the consolidated table, in order: the news columns that
\* exist, then Marca, then the consolidation columns
ConsolidatedColumns(existing_cols) ==
    existing_cols \o <<"Marca">> \o CONSOLIDATION_COLUMNS

\* a sheet: the ordered column names and the rows
Sheet(cols, rows) == [cols |-> cols, rows |-> rows]

\* DataFrame.to_excel followed by pd.read_excel: an empty string comes back
\* as a missing value
ReadExcelCell(a) == IF a = EMPTY THEN NULL ELSE a

ReadExcel(cols, rows) ==
    Sheet(cols,
          [i \in 1..Len(rows) |->
              [c \in DOMAIN rows[i] |->
                  IF c = "Id" THEN rows[i][c] ELSE ReadExcelCell(rows[i][c])]])

\* Series.astype(str): a missing value becomes the text "nan"
AsTypeStr(a) == IF a = NULL THEN Str("nan") ELSE a

\* str.replace('Ifood', 'iFood') on one cell
ReplaceIfood(a) == [i \in 1..Len(a) |-> IF a[i] = "Ifood" THEN "iFood" ELSE a[i]]

\* replace_ifood_typo: every text cell of every text column
ReplaceIfoodTypo(rows) ==
    [i \in 1..Len(rows) |->
        [c \in DOMAIN rows[i] |->
            IF c = "Id" THEN rows[i][c] ELSE ReplaceIfood(rows[i][c])]]

\* the mutant of HasKeyColumns: only the Id column is required
HasKeyColumns_IdOnly(cols) == "Id" \in Range(cols)

\* create_id_marca_field: 'Id' in df.columns and 'Marca' in df.columns, or
\* ValueError
HasKeyColumns(cols) == "Id" \in Range(cols) /\ "Marca" \in Range(cols)

\* the IdMarca of a row, after replace_ifood_typo has gone over it too
IdMarca(r) == <<r.Id, ReplaceIfood(AsTypeStr(r.Marca))>>

\* a merge that takes the value of the first row of the group, missing or not
FirstNonNull_FirstRow(rows, group, c) == rows[Min(group)][c]

\* merge_and_fill: the first value of the group that is not missing
FirstNonNull(rows, group, c) ==
    LET non_null == {i \in group : IF c = "Id" THEN rows[i][c] # NaId
                                                 ELSE rows[i][c] # NULL}
    IN IF non_null = {} THEN (IF c = "Id" THEN NaId ELSE NULL)
       ELSE rows[Min(non_null)][c]

\* merge_duplicate_id_marca and the drop_duplicates after it: one row for
\* each IdMarca
MergeDuplicateIdMarca(rows) ==
    LET firsts == SelectRows([i \in 1..Len(rows) |-> i],
                     [i \in 1..Len(rows) |->
                         \A j \in 1..(i - 1) : IdMarca(rows[j]) # IdMarca(rows[i])])
    IN [k \in 1..Len(firsts) |->
           LET group == {i \in 1..Len(rows) : IdMarca(rows[i]) = IdMarca(rows[firsts[k]])}
           IN [c \in DOMAIN rows[firsts[k]] |-> FirstNonNull(rows, group, c)]]

RECURSIVE SortAsc(_)
SortAsc(S) == IF S = {} THEN <<>> ELSE <<Min(S)>> \o SortAsc(S \ {Min(S)})

\* the name of a column, as a sequence of its parts
Col(name) == <<name>>

\* a pivot that names the new column after the source column alone
BrandCol_ColumnOnly(marca, col_original) == <<"_", col_original>>

\* f"{marca}_{col_original}"
BrandCol(marca, col_original) == marca \o <<"_", col_original>>

\* the mutant of GroupedIds: one record for each row, the rows not grouped
GroupedIds_PerRow(rows) ==
    LET with_id == SelectRows(rows, [i \in 1..Len(rows) |-> rows[i].Id # NaId])
    IN [k \in 1..Len(with_id) |-> with_id[k].Id]

\* df.groupby('Id'): the identifiers, ascending; a missing Id is no group
GroupedIds(rows) == SortAsc({rows[i].Id : i \in 1..Len(rows)} \ {NaId})

\* pivot_columns_by_brand
PivotColumnsByBrand(cols, rows) ==
    IF Len(cols) <= 15 THEN Frame({Col("Id")}, <<>>)
    ELSE LET colunas_para_processar == Range(SubSeq(cols, 12, 16))
             ids == GroupedIds(rows)
             branded(g) == {i \in 1..Len(rows) : rows[i].Id = g /\ rows[i].Marca # NULL}
             keys == IF ids = <<>> THEN {}
                     ELSE {Col("Id")} \cup
                          {BrandCol(rows[i].Marca, c) :
                              i \in UNION {branded(ids[k]) : k \in 1..Len(ids)},
                              c \in colunas_para_processar}
             novo_registro(g) ==
                 [k \in keys |->
                     IF k = Col("Id") THEN g
                     ELSE LET src == {<<i, c>> \in branded(g) \X colunas_para_processar :
                                          BrandCol(rows[i].Marca, c) = k}
                          IN IF src = {} THEN NULL
                             ELSE LET last_i == Max({x[1] : x \in src})
                                      x == CHOOSE x \in src : x[1] = last_i
                                  IN rows[x[1]][x[2]]]
         IN Frame(keys, [k \in 1..Len(ids) |-> novo_registro(ids[k])])

\* create_batch_update_sheet: every outcome the installed pandas can give.
\* groupby('IdMarca').apply(...).reset_index() on a sheet without rows raises
\* "cannot insert IdMarca, already exists" where apply hands the grouping
\* column to the function, and returns the empty sheet where it does not.
CreateBatchUpdateSheet(cols, rows) ==
    IF ~HasKeyColumns(cols) THEN {Raised}
    ELSE LET out == Returned(PivotColumnsByBrand(cols,
                        MergeDuplicateIdMarca(ReplaceIfoodTypo(rows))))
         IN IF rows = <<>> THEN {Raised, out} ELSE {out}

----------------------------------------------------------------------------
(* src/src/batch_final_adjustment - original.py: the final adjustment       *)

Keeta == Str("Keeta")
OUTRA_MARCA == <<"Outra", " ", "Marca/Entidade">>

\* pd.isna(x) or str(x).strip() == ""
IsBlank(a) == a = NULL \/ RStrip(LStrip(a)) = <<>>

RAPPI_ASSUNTO == BrandCol(Rappi, "Assunto")

colunas_fallback ==
    <<BrandCol(iFood, "Assunto"), BrandCol(Str("99"), "Assunto"),
      BrandCol(OUTRA_MARCA, "Assunto"), BrandCol(Str("Meituan"), "Assunto"),
      BrandCol(Str("99Food"), "Assunto"), BrandCol(Keeta, "Assunto")>>

\* the mutant of FallbackChoice: the loop without its break
FallbackChoice_NoBreak(candidates) == Max(candidates)

\* the fallback that fills: the first candidate, then break
FallbackChoice(candidates) == Min(candidates)

\* adjust_rappi_subject: df.loc[index, 'Rappi_Assunto'] is read for every
\* row, whether or not the column exists
AdjustRappiSubject(d) ==
    IF d.rows = <<>> THEN Returned(d)
    ELSE IF RAPPI_ASSUNTO \notin d.cols THEN Raised
    ELSE Returned([d EXCEPT !.rows =
            [i \in 1..Len(d.rows) |->
                LET row == d.rows[i]
                    candidates == {k \in 1..Len(colunas_fallback) :
                                      /\ colunas_fallback[k] \in d.cols
                                      /\ ~IsBlank(row[colunas_fallback[k]])}
                IN IF IsBlank(row[RAPPI_ASSUNTO]) /\ candidates # {}
                   THEN [row EXCEPT ![RAPPI_ASSUNTO] =
                            row[colunas_fallback[FallbackChoice(candidates)]]]
                   ELSE row]])

colunas_interesse ==
    <<Col("Id"), BrandCol(iFood, "pv_cadastrados"), BrandCol(iFood, "texto_nota"),
      BrandCol(iFood, "Assunto"), BrandCol(iFood, "nivel_protagonismo"),
      BrandCol(Rappi, "nivel_protagonismo"), RAPPI_ASSUNTO,
      BrandCol(Str("DoorDash"), "nivel_protagonismo"),
      BrandCol(Str("Meituan"), "nivel_protagonismo"),
      BrandCol(Keeta, "nivel_protagonismo"), BrandCol(Str("99"), "nivel_protagonismo"),
      BrandCol(Rappi, "pv_cadastrados"), BrandCol(Str("DoorDash"), "pv_cadastrados"),
      BrandCol(Str("Meituan"), "pv_cadastrados"), BrandCol(Keeta, "pv_cadastrados"),
      BrandCol(Str("99"), "pv_cadastrados"),
      Col("ID_pv_cadastrados"), Col("ID_Rappi_pv_cadastrados"),
      Col("ID_DoorDash_pv_cadastrados"), Col("ID_Meituan_pv_cadastrados"),
      Col("ID_Keeta_pv_cadastrados"), Col("ID_99_pv_cadastrados"),
      Col("ID_iFood_nivel_protagonismo"), Col("ID_Rappi_nivel_protagonismo"),
      Col("ID_DoorDash_nivel_protagonismo"), Col("ID_Meituan_nivel_protagonismo"),
      Col("ID_Keeta_nivel_protagonismo"), Col("ID_99_nivel_protagonismo")>>

JORNALISTA == Col("Jornalista/Fonte/Replicador/Autor")

UrlOf(id) == <<"Url", ToString(id)>>

\* create_clean_dataframe: the allowed columns that exist, the author column
\* after Id, and UrlVisualizacao and Titulo of the news joined on Id and
\* moved after Id.  Without an Id column the merge raises KeyError.
CreateCleanDataframe(d, df_original) ==
    IF Col("Id") \notin d.cols THEN Raised
    ELSE LET colunas_existentes == SelectSeq(colunas_interesse, LAMBDA c : c \in d.cols)
             known(id) == \E k \in 1..Len(df_original) : df_original[k] = id
             clean(row) ==
                 [c \in Range(colunas_existentes)
                        \cup {JORNALISTA, Col("UrlVisualizacao"), Col("Titulo")} |->
                     IF c = JORNALISTA THEN EMPTY
                     ELSE IF c = Col("UrlVisualizacao")
                          THEN (IF known(row[Col("Id")]) THEN UrlOf(row[Col("Id")]) ELSE NULL)
                     ELSE IF c = Col("Titulo")
                          THEN (IF known(row[Col("Id")]) THEN TituloOf(row[Col("Id")]) ELSE NULL)
                     ELSE row[c]]
         IN Returned(Sheet(<<Col("Id"), Col("UrlVisualizacao"), Col("Titulo"), JORNALISTA>>
                               \o Tail(colunas_existentes),
                           [i \in 1..Len(d.rows) |-> clean(d.rows[i])]))

PV_IFOOD == Col("Porta-vozes iFood")
NOTA_DO_IFOOD == Col("Nota do iFood")
ASSUNTO_II == Col("Assunto Específico II")
NIVEL_IFOOD == Col("Nível de Protagonismo iFood")
NIVEL_RAPPI == Col("Nivel de Protagonismo Rappi")
NIVEL_KEETA == Col("Nivel de Protagonismo Keeta")
ESFORCO == Col("Esforço")

renomear(c) ==
    CASE c = BrandCol(iFood, "pv_cadastrados") -> PV_IFOOD
      [] c = BrandCol(iFood, "texto_nota") -> NOTA_DO_IFOOD
      [] c = BrandCol(iFood, "Assunto") -> Col("Assunto Específico")
      [] c = BrandCol(iFood, "nivel_protagonismo") -> NIVEL_IFOOD
      [] c = BrandCol(Rappi, "nivel_protagonismo") -> NIVEL_RAPPI
      [] c = RAPPI_ASSUNTO -> ASSUNTO_II
      [] c = BrandCol(Str("DoorDash"), "nivel_protagonismo") -> Col("Nivel de Protagonismo DoorDash")
      [] c = BrandCol(Str("Meituan"), "nivel_protagonismo") -> Col("Nivel de Protagonismo Meituan")
      [] c = BrandCol(Keeta, "nivel_protagonismo") -> NIVEL_KEETA
      [] c = BrandCol(Str("99"), "nivel_protagonismo") -> Col("Nivel de Protagonismo 99")
      [] c = BrandCol(Rappi, "pv_cadastrados") -> Col("Porta Vozes Rappi")
      [] c = BrandCol(Str("DoorDash"), "pv_cadastrados") -> Col("Porta Vozes Doordash")
      [] c = BrandCol(Str("Meituan"), "pv_cadastrados") -> Col("Porta Vozes Meituan")
      [] c = BrandCol(Keeta, "pv_cadastrados") -> Col("Porta Vozes Keeta")
      [] c = BrandCol(Str("99"), "pv_cadastrados") -> Col("Porta Vozes 99")
      [] c = Col("ID_pv_cadastrados") -> Col("ID Porta-vozes iFood")
      [] c = Col("ID_Rappi_pv_cadastrados") -> Col("ID Porta Vozes Rappi")
      [] c = Col("ID_DoorDash_pv_cadastrados") -> Col("ID Porta Vozes Doordash")
      [] c = Col("ID_Meituan_pv_cadastrados") -> Col("ID Porta Vozes Meituan")
      [] c = Col("ID_Keeta_pv_cadastrados") -> Col("ID Porta Vozes Keeta")
      [] c = Col("ID_99_pv_cadastrados") -> Col("ID Porta Vozes 99")
      [] OTHER -> c

\* rename_columns
RenameColumns(t) ==
    Sheet([k \in 1..Len(t.cols) |-> renomear(t.cols[k])],
          [i \in 1..Len(t.rows) |->
              [c \in {renomear(x) : x \in Range(t.cols)} |->
                  t.rows[i][CHOOSE x \in Range(t.cols) : renomear(x) = c]]])

\* process_final_batch, step 4: the note text becomes a yes/no indicator
FillNotaDoIfood(t) ==
    IF NOTA_DO_IFOOD \notin Range(t.cols) THEN t
    ELSE [t EXCEPT !.rows =
            [i \in 1..Len(t.rows) |->
                [t.rows[i] EXCEPT ![NOTA_DO_IFOOD] =
                    IF IsBlank(t.rows[i][NOTA_DO_IFOOD]) THEN Str("Não") ELSE Str("Sim")]]]

\* columns.get_loc: the position of a column, counted from 0
GetLoc(cols, c) == (CHOOSE k \in 1..Len(cols) : cols[k] = c) - 1

\* df.insert(loc, column, value): the new column at position loc, the same
\* value in every row
Insert(t, loc, column, value) ==
    Sheet(SubSeq(t.cols, 1, loc) \o <<column>> \o SubSeq(t.cols, loc + 1, Len(t.cols)),
          [i \in 1..Len(t.rows) |->
              [c \in DOMAIN t.rows[i] \cup {column} |->
                  IF c = column THEN value ELSE t.rows[i][c]]])

\* process_final_batch, step 5: the constant Esforço column, last, or right
\* after 'Assunto Específico II' when that column exists
CreateEsforco(t) ==
    IF ASSUNTO_II \in Range(t.cols)
    THEN Insert(t, GetLoc(t.cols, ASSUNTO_II) + 1, ESFORCO, Str("Reativo"))
    ELSE Insert(t, Len(t.cols), ESFORCO, Str("Reativo"))

colunas_para_id ==
    <<JORNALISTA, PV_IFOOD, NOTA_DO_IFOOD, Col("Assunto Específico"), NIVEL_IFOOD,
      NIVEL_RAPPI, ASSUNTO_II, ESFORCO, Col("Nivel de Protagonismo DoorDash"),
      Col("Nivel de Protagonismo Meituan"), NIVEL_KEETA,
      Col("Nivel de Protagonismo 99"), Col("Porta Vozes Rappi"),
      Col("Porta Vozes Doordash"), Col("Porta Vozes Meituan"),
      Col("Porta Vozes Keeta"), Col("Porta Vozes 99")>>

\* f"ID {col_nome}"
IdCol(col_nome) == <<"ID ">> \o col_nome

Reverse(s) == [k \in 1..Len(s) |-> s[Len(s) + 1 - k]]

\* the loop of add_id_columns over the columns still to do.  df.insert of a
\* column that exists raises ValueError ("cannot insert ..., already exists").
RECURSIVE AddIdLoop(_, _)
AddIdLoop(t, todo) ==
    IF todo = <<>> THEN Returned(t)
    ELSE LET col_nome == Head(todo)
             nome_coluna_id == IdCol(col_nome)
         IN IF nome_coluna_id \notin Range(t.cols)
            THEN AddIdLoop(Insert(t, GetLoc(t.cols, col_nome), nome_coluna_id, EMPTY),
                           Tail(todo))
            ELSE IF \A i \in 1..Len(t.rows) : t.rows[i][nome_coluna_id] = NULL
                 THEN Raised
                 ELSE AddIdLoop(t, Tail(todo))

\* add_id_columns
AddIdColumns(t) ==
    AddIdLoop(t, Reverse(SelectSeq(colunas_para_id, LAMBDA c : c \in Range(t.cols))))

\* the lookup dictionary: str(Resposta).strip() -> ID Resposta, a later row
\* of the lookup file replacing an earlier one
LookupKeys(df_lookup) == {RStrip(LStrip(df_lookup[k].Resposta)) : k \in 1..Len(df_lookup)}

LookupGet(df_lookup, valor_str) ==
    df_lookup[Max({k \in 1..Len(df_lookup) :
                      RStrip(LStrip(df_lookup[k].Resposta)) = valor_str})].ID_Resposta

\* the mutant of LookupValue: the value is looked up as it stands, untrimmed
LookupValue_NoStrip(valor) == valor

\* valor_str = str(valor).strip()
LookupValue(valor) == RStrip(LStrip(valor))

\* one column of a lookup pass: every value that is not blank and is a key
\* of the dictionary writes its identifier into the ID column
LookupColumn(t, df_lookup, col) ==
    IF col \in Range(t.cols) /\ IdCol(col) \in Range(t.cols)
    THEN [t EXCEPT !.rows =
            [i \in 1..Len(t.rows) |->
                LET valor == t.rows[i][col]
                IN IF ~IsBlank(valor) /\ LookupValue(valor) \in LookupKeys(df_lookup)
                   THEN [t.rows[i] EXCEPT ![IdCol(col)] =
                            LookupGet(df_lookup, LookupValue(valor))]
                   ELSE t.rows[i]]]
    ELSE t

\* lookup_spokesperson_ids: returns the table as it is
LookupSpokespersonIds(t) == t

protagonist_columns ==
    <<NIVEL_IFOOD, NIVEL_RAPPI, Col("Nivel de Protagonismo DoorDash"),
      Col("Nivel de Protagonismo Meituan"), NIVEL_KEETA, Col("Nivel de Protagonismo 99")>>

RECURSIVE LookupColumns(_, _, _)
LookupColumns(t, df_lookup, columns) ==
    IF columns = <<>> THEN t
    ELSE LookupColumns(LookupColumn(t, df_lookup, Head(columns)), df_lookup, Tail(columns))

\* lookup_protagonist_ids; a lookup file that is missing or has no rows
\* leaves the table as it is
LookupProtagonistIds(t, df_lookup) ==
    IF df_lookup = <<>> THEN t ELSE LookupColumns(t, df_lookup, protagonist_columns)

\* lookup_effort_ids
LookupEffortIds(t, df_lookup) ==
    IF df_lookup = <<>> THEN t ELSE LookupColumn(t, df_lookup, ESFORCO)

\* lookup_note_ids
LookupNoteIds(t, df_lookup) ==
    IF df_lookup = <<>> THEN t ELSE LookupColumn(t, df_lookup, NOTA_DO_IFOOD)

----------------------------------------------------------------------------
(* Steps 14 and 15 of src/tasks.py on their own: create_batch_update_sheet  *)
(* reads a consolidated file, process_final_batch adjusts its result        *)

ConsolidatedRow(id, marca, f) ==
    [Id |-> id, Titulo |-> <<"Titulo", ToString(id)>>, Marca |-> marca,
     pv_cadastrados |-> f[1], pv_nao_cadastrados |-> f[2],
     nivel_protagonismo |-> f[3], texto_nota |-> f[4], Assunto |-> f[5],
     score_similaridade_assunto |-> NULL]

\* The rows of a consolidated file.  For every identifier: an iFood row with
\* every field and a Rappi row with a level only.  For the last identifier
\* also: Rappi rows with a subject, a blank subject and an unlisted level, a
\* Keeta row, a row with the "Ifood" spelling, a row that the pass-3 clone
\* left with empty spokesperson fields, and a row without a brand; and a row
\* without an identifier.
ConsolidatedRows ==
    {ConsolidatedRow(i, iFood, <<Str("Ana"), NULL, Str("Protagonista"),
                                 Str("nota1"), Str("assunto1")>>) : i \in Ids}
    \cup {ConsolidatedRow(i, Rappi, <<NULL, NULL, <<"Figurante", " ">>, NULL, NULL>>) : i \in Ids}
    \cup {ConsolidatedRow(MaxId, v[1], v[2]) :
            v \in {<<Rappi, <<NULL, NULL, Str("Desconhecido"), NULL, Str("assunto2")>>>>,
                   <<Rappi, <<EMPTY, EMPTY, NULL, NULL, BLANK>>>>,
                   <<Keeta, <<NULL, Str("Dan"), Str("Protagonista"), NULL, Str("assunto2")>>>>,
                   <<Str("Ifood"), <<Str("Bob"), NULL, NULL, BLANK, NULL>>>>,
                   <<NULL, <<NULL, NULL, NULL, NULL, Str("assunto1")>>>>}}
    \cup {ConsolidatedRow(NaId, iFood, <<NULL, NULL, NULL, NULL, Str("assunto2")>>)}

\* the columns of a consolidated file: of a news table with every column or
\* without its last one or two, or a file that lacks Marca or Id
ConsolidatedHeaders ==
    {ConsolidatedColumns(SubSeq(ORIGINAL_COLUMNS, 1, n)) : n \in 8..10}
    \cup {ORIGINAL_COLUMNS \o CONSOLIDATION_COLUMNS,
          Tail(ConsolidatedColumns(ORIGINAL_COLUMNS))}

ConsolidatedSheets ==
    {Sheet(ConsolidatedColumns(ORIGINAL_COLUMNS), r) : r \in SeqsUpTo(ConsolidatedRows, MaxRows)}
    \cup {Sheet(h, r) : h \in ConsolidatedHeaders, r \in SeqsUpTo(ConsolidatedRows, 1)}

Lookup(resposta, id_resposta) == [Resposta |-> resposta, ID_Resposta |-> id_resposta]

\* the rows of the three lookup files (a label may be padded, and may come
\* twice)
LookupRows ==
    [protagonismo |-> <<Lookup(Str("Protagonista"), Str("P0")),
                        Lookup(<<"Protagonista", " ">>, Str("P1")),
                        Lookup(Str("Figurante"), Str("P5"))>>,
     esforco |-> <<Lookup(Str("Reativo"), Str("E1"))>>,
     nota |-> <<Lookup(Str("Sim"), Str("N1"))>>]

\* the lookup files of settings.py.  get_lookup_file gives None for a
\* category whose folder held no .xlsx file when the settings were loaded
\* (unresolved); a file found then may have rows, or be gone or unreadable
\* by the time it is read (no rows).
LookupFiles ==
    {[protagonismo |-> IF "protagonismo" \in u THEN <<>> ELSE LookupRows.protagonismo,
      esforco |-> IF "esforco" \in u THEN <<>> ELSE LookupRows.esforco,
      nota |-> IF "nota" \in u THEN <<>> ELSE LookupRows.nota,
      unresolved |-> u] : u \in SUBSET {"protagonismo", "esforco", "nota"}}
    \cup {[protagonismo |-> <<>>, esforco |-> <<>>, nota |-> <<>>, unresolved |-> {}]}

\* load_lookup_file: lookup_path.exists() comes before the try block, so the
\* None of an unresolved category raises AttributeError; a file that is gone
\* or unreadable gives the empty table
LoadLookupFile(files, category) ==
    IF category \in files.unresolved THEN Raised ELSE Returned(files[category])

InitBatch ==
    /\ pc = "pivot"
    /\ base = [i \in 1..MaxId |-> i]
    /\ inp \in ConsolidatedSheets
    /\ df = Frame({}, <<>>)
    /\ prev = Frame({}, <<>>)
    /\ used = 0
    /\ last = "start"

\* one step of the two stages: its outcome replaces the table, or the
\* exception ends the run
BatchStep(next, res) ==
    /\ last' = pc
    /\ prev' = df
    /\ UNCHANGED <<base, used>>
    /\ IF res.raised
       THEN pc' = "failed" /\ df' = df
       ELSE pc' = next /\ df' = res.df

Pivot ==
    /\ pc = "pivot"
    /\ LET sheet == ReadExcel(inp.cols, inp.rows)
       IN \E res \in CreateBatchUpdateSheet(sheet.cols, sheet.rows) :
             BatchStep("cascade", res)
    /\ UNCHANGED inp

Cascade ==
    /\ pc = "cascade"
    /\ BatchStep("clean", AdjustRappiSubject(df))
    /\ UNCHANGED inp

Clean ==
    /\ pc = "clean"
    /\ BatchStep("rename", CreateCleanDataframe(df, base))
    /\ UNCHANGED inp

Rename ==
    /\ pc = "rename"
    /\ BatchStep("nota", Returned(RenameColumns(df)))
    /\ UNCHANGED inp

Nota ==
    /\ pc = "nota"
    /\ BatchStep("esforco", Returned(FillNotaDoIfood(df)))
    /\ UNCHANGED inp

Esforco ==
    /\ pc = "esforco"
    /\ BatchStep("ids", Returned(CreateEsforco(df)))
    /\ UNCHANGED inp

AddIds ==
    /\ pc = "ids"
    /\ BatchStep("lookup", AddIdColumns(df))
    /\ UNCHANGED inp

Lookups ==
    /\ pc = "lookup"
    /\ \E files \in LookupFiles :
          /\ inp' = files
          /\ LET protagonismo == LoadLookupFile(files, "protagonismo")
                 esforco == LoadLookupFile(files, "esforco")
                 nota == LoadLookupFile(files, "nota")
             IN BatchStep("save",
                    IF protagonismo.raised \/ esforco.raised \/ nota.raised THEN Raised
                    ELSE Returned(
                        LookupNoteIds(
                            LookupEffortIds(
                                LookupProtagonistIds(LookupSpokespersonIds(df),
                                                     protagonismo.df),
                                esforco.df),
                            nota.df)))

\* save_with_hyperlinks, twice: the write succeeds or raises
Save ==
    /\ pc = "save"
    /\ \E written \in BOOLEAN :
          BatchStep("done", IF written THEN Returned(df) ELSE Raised)
    /\ UNCHANGED inp

NextBatch ==
    Pivot \/ Cascade \/ Clean \/ Rename \/ Nota \/ Esforco \/ AddIds \/ Lookups \/ Save

SpecBatch == InitBatch /\ [][NextBatch]_vars

----------------------------------------------------------------------------
(* Properties of the pivot and of the final adjustment *)

\* the step has just been taken and returned
Done(step, next) == last = step /\ pc = next

\* the consolidated file as the pivot reads it
Consolidated == ReadExcel(inp.cols, inp.rows)

LacksValue(r) == r.Id = NaId \/ r.Marca = NULL

EntityIds == {Consolidated.rows[i].Id : i \in Rows(Consolidated.rows)} \ {NaId}

EachHasValidBrand ==
    \A id \in EntityIds :
        \E i \in Rows(Consolidated.rows) :
            Consolidated.rows[i].Id = id /\ ValidBrand(Consolidated.rows[i].Marca)

OneRowPerEntity ==
    /\ {df.rows[k][Col("Id")] : k \in Rows(df.rows)} = EntityIds
    /\ \A j, k \in Rows(df.rows) : df.rows[j][Col("Id")] = df.rows[k][Col("Id")] => j = k

FinalAdjusterSteps == {"cascade", "clean", "rename", "nota", "esforco", "ids", "lookup"}

\* C13: the final adjuster raises on no pivoted table the pivot can produce.
C13_Claim == last \in FinalAdjusterSteps => pc # "failed"

\* the fallback columns of the table, in their declared order, and the first
\* of them that holds a value in the row
Fallbacks(cols) == SelectSeq(colunas_fallback, LAMBDA c : c \in cols)

IsFirstValue(row, cols, v) ==
    \E k \in 1..Len(Fallbacks(cols)) :
        /\ ~IsBlank(row[Fallbacks(cols)[k]])
        /\ row[Fallbacks(cols)[k]] = v
        /\ \A j \in 1..(k - 1) : IsBlank(row[Fallbacks(cols)[j]])

\* C14: after the cascade fill, a row whose primary subject held a value
\* keeps it; a row whose primary subject was empty has the first value, in
\* the declared order, of the fallback columns, or is as it was when every
\* fallback is empty; no other column is modified.
C14_Theorem ==
    Done("cascade", "clean") =>
        /\ df.cols = prev.cols
        /\ Len(df.rows) = Len(prev.rows)
        /\ \A i \in Rows(prev.rows) :
              /\ \A c \in prev.cols \ {RAPPI_ASSUNTO} : df.rows[i][c] = prev.rows[i][c]
              /\ IF ~IsBlank(prev.rows[i][RAPPI_ASSUNTO])
                 THEN df.rows[i][RAPPI_ASSUNTO] = prev.rows[i][RAPPI_ASSUNTO]
                 ELSE IF \E k \in 1..Len(Fallbacks(prev.cols)) :
                            ~IsBlank(prev.rows[i][Fallbacks(prev.cols)[k]])
                      THEN IsFirstValue(prev.rows[i], prev.cols, df.rows[i][RAPPI_ASSUNTO])
                      ELSE df.rows[i][RAPPI_ASSUNTO] = prev.rows[i][RAPPI_ASSUNTO]

C14_Witness ==
    /\ Done("cascade", "clean")
    /\ \E i \in Rows(prev.rows) :
          /\ IsBlank(prev.rows[i][RAPPI_ASSUNTO])
          /\ Len(Fallbacks(prev.cols)) = 2
          /\ ~IsBlank(prev.rows[i][Fallbacks(prev.cols)[1]])
          /\ ~IsBlank(prev.rows[i][Fallbacks(prev.cols)[2]])
          /\ prev.rows[i][Fallbacks(prev.cols)[1]] # prev.rows[i][Fallbacks(prev.cols)[2]]
          /\ df.rows[i][RAPPI_ASSUNTO] = prev.rows[i][Fallbacks(prev.cols)[1]]

\* C15: the ID-column scaffolding applied to its own output returns that
\* output and does not raise.
C15_Claim ==
    Done("ids", "lookup") =>
        /\ ~AddIdColumns(df).raised
        /\ AddIdColumns(df).df = df

\* the columns the lookup passes resolve, and the lookup file of each
LookupTargets == Range(protagonist_columns) \cup {ESFORCO, NOTA_DO_IFOOD}

FileOf(c) ==
    IF c = ESFORCO THEN inp.esforco
    ELSE IF c = NOTA_DO_IFOOD THEN inp.nota
    ELSE inp.protagonismo

\* the rows of the lookup file whose trimmed label is the trimmed value
Labelled(c, valor) ==
    {k \in Rows(FileOf(c)) : RStrip(LStrip(FileOf(c)[k].Resposta)) = RStrip(LStrip(valor))}

\* C16: after the lookup passes, each with a lookup file to read, for every
\* row with a value in a prominence, effort or note-indicator column, the ID
\* column next to it holds the identifier the lookup file gives the trimmed
\* value when the file has that label, and is left blank when it has not; no
\* pass raises and no other cell changes.
C16_Theorem ==
    (last = "lookup" /\ inp.unresolved = {}) =>
        /\ pc = "save"
        /\ df.cols = prev.cols
        /\ Len(df.rows) = Len(prev.rows)
        /\ \A i \in Rows(prev.rows) :
              /\ \A c \in Range(prev.cols) \ {IdCol(t) : t \in LookupTargets} :
                    df.rows[i][c] = prev.rows[i][c]
              /\ \A c \in LookupTargets \cap Range(prev.cols) :
                    ~IsBlank(prev.rows[i][c]) =>
                        IF Labelled(c, prev.rows[i][c]) # {}
                        THEN df.rows[i][IdCol(c)] =
                                FileOf(c)[Max(Labelled(c, prev.rows[i][c]))].ID_Resposta
                        ELSE df.rows[i][IdCol(c)] = EMPTY

C16_Witness ==
    /\ Done("lookup", "save")
    /\ \E i, j \in Rows(df.rows) :
          /\ df.rows[i][NIVEL_RAPPI] = <<"Figurante", " ">>
          /\ df.rows[i][IdCol(NIVEL_RAPPI)] = Str("P5")
          /\ df.rows[j][NIVEL_RAPPI] = Str("Desconhecido")
          /\ df.rows[j][IdCol(NIVEL_RAPPI)] = EMPTY
          /\ df.rows[i][IdCol(ESFORCO)] = Str("E1")

SpokespersonColumns ==
    {PV_IFOOD, Col("Porta Vozes Rappi"), Col("Porta Vozes Doordash"),
     Col("Porta Vozes Meituan"), Col("Porta Vozes Keeta"), Col("Porta Vozes 99")}

\* C17: in the table process_final_batch returns, every row with a value in
\* a registered-spokesperson column has a value in the ID column next to it.
C17_Claim ==
    pc = "done" =>
        \A i \in Rows(df.rows) :
            \A c \in SpokespersonColumns \cap Range(df.cols) :
                ~IsBlank(df.rows[i][c]) => ~IsBlank(df.rows[i][IdCol(c)])

----------------------------------------------------------------------------
(* Properties of the sentinel values *)

\* the markers the classifier stages emit: no match, empty input, service
\* failure, processing failure, undefined brand
ClassifierSentinels ==
    {SEM_PORTA_VOZ, NENHUM_PV, CONTEUDO_VAZIO, ERRO_API, ERRO_DE_PROCESSAMENTO,
     ERRO_NO_PROCESSAMENTO, NAO, INDEFINIDO}

EnrichmentOf(r) ==
    {r.pv_cadastrados, r.pv_nao_cadastrados, r.nivel_protagonismo,
     r.texto_nota, r.Assunto}

HoldsSentinel(r) ==
    r.Marca \in ClassifierSentinels \/ EnrichmentOf(r) \cap ClassifierSentinels # {}

\* C18 (as claimed): no row of the filtered consolidated table holds a
\* classifier sentinel in its brand or in an enrichment field.
C18_Claim ==
    pc = "filtered" => \A i \in Rows(df) : ~HoldsSentinel(df[i])

----------------------------------------------------------------------------
(* src/tasks.py, _execute_pipeline: the control flow of one execution and the
   canonical files of config/settings.py.  Here base is the number of the
   execution, pc the step about to run, used the progress last published by
   update_progress, df the canonical files (each holds the number of the
   execution that wrote it, 0 before the first), prev the files as the
   execution found them, inp what the execution returned and last the
   exception it raised. *)

total_steps == 15

NoResult == [status |-> "NONE"]
NoException == "none"

\* what a step may raise: a missing key or column, a failed read or write
Exceptions == {"KeyError", "OSError"}

\* arq_consolidado, arq_lote_final, arq_lote_final_limpo before any execution
CanonicalFiles == [consolidado |-> 0, lote |-> 0, lote_limpo |-> 0]

\* the dict returned when the API gave no news
EmptyApiReport == [status |-> "FAILURE", message |-> "API não retornou notícias"]

\* the dict returned by the except branch: str(e) and format_exc(), whose
\* innermost frame of _execute_pipeline is the call of the step in progress
FailureReport(e, step) ==
    [status |-> "FAILURE", message |-> e,
     traceback |-> [exception |-> e, step |-> step]]

\* result['drive_upload']: uploaded, not configured, or the exception the
\* inner try block caught
DriveUpload ==
    {[success |-> TRUE, link |-> "webViewLink"],
     [success |-> FALSE, reason |-> "não configurado"]}
    \cup {[success |-> FALSE, error |-> e] : e \in Exceptions}

\* an execution that reports the failed upload as its own failure
SuccessResult_FailOnError(uploaded) ==
    [status |-> IF uploaded.success THEN "SUCCESS" ELSE "FAILURE",
     files |-> {"consolidado", "lote", "lote_limpo"},
     drive_upload |-> uploaded]

\* the dict returned after the Drive upload was tried
SuccessResult(uploaded) ==
    [status |-> "SUCCESS", files |-> {"consolidado", "lote", "lote_limpo"},
     drive_upload |-> uploaded]

InitRun ==
    /\ pc = "step1"
    /\ base = 1
    /\ used = 0
    /\ df = CanonicalFiles
    /\ prev = CanonicalFiles
    /\ inp = NoResult
    /\ last = NoException

\* the step goes on to the next one
Goes(next) ==
    /\ pc' = next
    /\ UNCHANGED <<base, prev, inp, last>>

\* an exception raised outside the try block leaves the function
Escapes(e) ==
    /\ pc' = "escaped"
    /\ last' = e
    /\ UNCHANGED <<base, prev, inp>>

\* an exception raised inside the try block is turned into a report
Caught(e) ==
    /\ pc' = "returned"
    /\ last' = e
    /\ inp' = FailureReport(e, used')
    /\ UNCHANGED <<base, prev>>

\* step 1: create_folder_structure, then update_progress(1)
Setup ==
    /\ pc = "step1"
    /\ \/ \E e \in Exceptions : Escapes(e) /\ UNCHANGED <<used, df>>
       \/ Goes("step2") /\ used' = 1 /\ UNCHANGED df

\* step 2: update_progress(2), fetch_api_data, the empty-table return
Fetch ==
    /\ pc = "step2"
    /\ used' = 2
    /\ UNCHANGED df
    /\ \/ \E e \in Exceptions : Escapes(e)
       \/ /\ pc' = "returned"
          /\ inp' = EmptyApiReport
          /\ UNCHANGED <<base, prev, last>>
       \/ Goes("step3")

StepName(k) == "step" \o ToString(k)

\* steps 3 to 7: the five classifier stages
Classify ==
    \E k \in 3..7 :
        /\ pc = StepName(k)
        /\ used' = k
        /\ UNCHANGED df
        /\ \/ \E e \in Exceptions : Caught(e)
           \/ Goes(StepName(k + 1))

\* steps 8 to 12: the five consolidation passes
Consolidate ==
    \E k \in 8..12 :
        /\ pc = StepName(k)
        /\ used' = k
        /\ UNCHANGED df
        /\ \/ \E e \in Exceptions : Caught(e)
           \/ Goes(StepName(k + 1))

\* step 13: filter_and_save_consolidated writes arq_consolidado
SaveConsolidated ==
    /\ pc = "step13"
    /\ used' = 13
    /\ \/ \E e \in Exceptions : Caught(e) /\ UNCHANGED df
       \/ Goes("step14") /\ df' = [df EXCEPT !.consolidado = base]

\* step 14: create_batch_update_sheet reads arq_consolidado and writes
\* arq_lote_final
CreateLote ==
    /\ pc = "step14"
    /\ used' = 14
    /\ \/ \E e \in Exceptions : Caught(e) /\ UNCHANGED df
       \/ Goes("step15") /\ df' = [df EXCEPT !.lote = base]

\* step 15: process_final_batch raises before its persist step, or writes
\* arq_lote_final_limpo and then the timestamped copy, whose write may raise
FinalAdjust ==
    /\ pc = "step15"
    /\ used' = total_steps
    /\ \/ \E e \in Exceptions : Caught(e) /\ UNCHANGED df
       \/ /\ df' = [df EXCEPT !.lote_limpo = base]
          /\ \/ Caught("OSError")
             \/ Goes("upload")

\* the Drive upload in its own try block, and the return of the result
Upload ==
    /\ pc = "upload"
    /\ pc' = "returned"
    /\ \E uploaded \in DriveUpload : inp' = SuccessResult(uploaded)
    /\ UNCHANGED <<base, df, prev, used, last>>

Running == pc \notin {"returned", "escaped", "killed"}

\* celery_app.py, task_time_limit: the worker is killed at whatever step
\* the execution has reached
TimeLimit ==
    /\ Running
    /\ pc' = "killed"
    /\ UNCHANGED <<base, df, prev, inp, used, last>>

\* process_pipeline or process_pipeline_scheduled starts the next execution
NextExecution ==
    /\ ~Running
    /\ base < MaxRuns
    /\ base' = base + 1
    /\ pc' = "step1"
    /\ used' = 0
    /\ prev' = df
    /\ inp' = NoResult
    /\ last' = NoException
    /\ UNCHANGED df

NextRun ==
    \/ Setup \/ Fetch \/ Classify \/ Consolidate \/ SaveConsolidated
    \/ CreateLote \/ FinalAdjust \/ Upload \/ TimeLimit \/ NextExecution

SpecRun == InitRun /\ [][NextRun]_vars

----------------------------------------------------------------------------
(* Properties of an execution *)

\* the execution is over without having returned the success summary
Unsuccessful ==
    \/ pc \in {"escaped", "killed"}
    \/ pc = "returned" /\ inp.status = "FAILURE"

\* C19 (as claimed): an execution that fails or is abandoned before the end
\* of the Final Adjuster's persist step leaves the canonical consolidated
\* file and the canonical final-table file as it found them.
C19_Claim ==
    Unsuccessful =>
        /\ df.consolidado = prev.consolidado
        /\ df.lote_limpo = prev.lote_limpo

\* C20 (as claimed): an execution ends either in a success summary, given
\* only after the final table was persisted, or in a failure report that
\* carries the exception and tells the step reached; no exception escapes.
C20_Claim ==
    /\ pc # "escaped"
    /\ pc = "returned" =>
          \/ inp.status = "SUCCESS" /\ df.lote_limpo = base
          \/ /\ inp.status = "FAILURE"
             /\ last # NoException
             /\ inp.message = last
             /\ "traceback" \in DOMAIN inp
             /\ inp.traceback.step = used

----------------------------------------------------------------------------
(* Properties of the rows the passes create and update *)

\* the hits the first pass is to apply: a name other than the sentinel, an
\* entity of the news table
SpokespersonDetections ==
    {h \in Hits : h.Porta_Voz # SEM_PORTA_VOZ /\ h.Id \in BaseIds}

\* the row the first pass is to create for a hit
DetectionRow(h) ==
    [Id |-> h.Id, Titulo |-> TituloOf(h.Id), Marca |-> h.Marca,
     pv_cadastrados |-> h.Porta_Voz, pv_nao_cadastrados |-> NULL,
     nivel_protagonismo |-> NULL, texto_nota |-> NULL,
     Assunto |-> NULL, score_similaridade_assunto |-> NULL]

\* the base row of an entity as initialize_consolidated_df makes it
BaseRow(id) ==
    [Id |-> id, Titulo |-> TituloOf(id), Marca |-> NULL,
     pv_cadastrados |-> NULL, pv_nao_cadastrados |-> NULL,
     nivel_protagonismo |-> NULL, texto_nota |-> NULL,
     Assunto |-> NULL, score_similaridade_assunto |-> NULL]

Undetected == {id \in BaseIds : ~\E h \in SpokespersonDetections : h.Id = id}

Occurrences(t, r) == Cardinality({i \in Rows(t) : t[i] = r})

\* C25: after the first pass the table holds exactly one row per distinct
\* (Id, Marca, Porta_Voz) hit whose Id is in the news table and whose name is
\* not 'Sem porta-voz', with the base attributes of the entity, the hit's
\* brand and name and null in every other enrichment field, and the
\* unchanged base row of every entity without such a hit.
C25_Theorem ==
    (Passed("pass1") /\ {"Id", "Marca", "Porta_Voz"} \subseteq inp.cols) =>
        /\ \A h \in SpokespersonDetections : Occurrences(df, DetectionRow(h)) = 1
        /\ \A id \in Undetected : Occurrences(df, BaseRow(id)) = 1
        /\ Len(df) = Cardinality({DetectionRow(h) : h \in SpokespersonDetections})
                        + Cardinality(Undetected)

\* the first pass got a sentinel hit and a detection, and left an entity
\* without detection
C25_Witness ==
    /\ Passed("pass1") /\ {"Id", "Marca", "Porta_Voz"} \subseteq inp.cols
    /\ \E h \in Hits : h.Porta_Voz = SEM_PORTA_VOZ
    /\ SpokespersonDetections # {}
    /\ Undetected # {}

UpdatePasses == {"pass2", "pass3", "pass4"}

\* the field a pass sets
Target(p) ==
    CASE p = "pass2" -> "pv_nao_cadastrados"
      [] p = "pass3" -> "nivel_protagonismo"
      [] p = "pass4" -> "texto_nota"

Selected(r) == \E h \in Hits : Selects(h, r)

\* C26: in passes 2, 3 and 4 every row the table had keeps its place, its
\* brand and every field but the target field of the pass; a row whose
\* (Id, Marca) no hit carries is unchanged; and the table has as many rows as
\* before unless some hit selects no row.
C26_Theorem ==
    \A p \in UpdatePasses : Passed(p) =>
        /\ Len(df) >= Len(prev)
        /\ \A i \in Rows(prev) :
              /\ df[i] = [prev[i] EXCEPT ![Target(p)] = df[i][Target(p)]]
              /\ ~Selected(prev[i]) => df[i] = prev[i]
        /\ (\A h \in Hits : \E i \in Rows(prev) : Selects(h, prev[i])) =>
              Len(df) = Len(prev)

\* a pass updated the target field of a selected row next to a row of the
\* same entity under another brand
C26_Witness ==
    \E p \in UpdatePasses :
        /\ Passed(p)
        /\ \E i, j \in Rows(prev) :
              /\ Selected(prev[i]) /\ df[i] # prev[i]
              /\ prev[j].Id = prev[i].Id /\ prev[j].Marca # prev[i].Marca
              /\ ~Selected(prev[j])

----------------------------------------------------------------------------
(* Properties of the duplicate merge and of the pivoted columns *)

\* the table the duplicate merge receives and the table it gives
MergeInput == ReplaceIfoodTypo(Consolidated.rows)
Merged == MergeDuplicateIdMarca(MergeInput)

CompositeKey(r) == <<r.Id, r.Marca>>

Missing(c) == IF c = "Id" THEN NaId ELSE NULL

\* v is the first value of column c that is not missing among the rows of
\* key k, in their order, or the missing value when there is none
FirstOfKey(rows, k, c, v) ==
    LET group == {i \in Rows(rows) : CompositeKey(rows[i]) = k}
    IN \/ /\ \A i \in group : rows[i][c] = Missing(c)
          /\ v = Missing(c)
       \/ \E i \in group :
             /\ rows[i][c] # Missing(c)
             /\ v = rows[i][c]
             /\ \A j \in group : j < i => rows[j][c] = Missing(c)

\* C27: after the duplicate merge every (Id, Marca) of its input is the key
\* of exactly one row, and each field of that row is the first non-null
\* value of the field among the input rows of the key, in input order, or
\* null when they are all null.
C27_Theorem ==
    Done("pivot", "cascade") =>
        LET rows == MergeInput
            merged == MergeDuplicateIdMarca(rows)
        IN /\ {CompositeKey(merged[j]) : j \in Rows(merged)}
                 = {CompositeKey(rows[i]) : i \in Rows(rows)}
           /\ \A j, k \in Rows(merged) :
                 CompositeKey(merged[j]) = CompositeKey(merged[k]) => j = k
           /\ \A j \in Rows(merged) : \A c \in DOMAIN merged[j] :
                 FirstOfKey(rows, CompositeKey(merged[j]), c, merged[j][c])

\* two input rows of one key were merged, one field taken from the first
\* and another, missing in the first, from the second
C27_Witness ==
    /\ Done("pivot", "cascade")
    /\ LET rows == MergeInput
           merged == MergeDuplicateIdMarca(rows)
       IN \E i, j \in Rows(rows) : \E m \in Rows(merged) :
             /\ i < j
             /\ CompositeKey(rows[i]) = CompositeKey(rows[j])
             /\ CompositeKey(merged[m]) = CompositeKey(rows[i])
             /\ rows[i].Assunto = NULL
             /\ merged[m].Assunto = rows[j].Assunto
             /\ merged[m].Assunto # NULL
             /\ merged[m].nivel_protagonismo = rows[i].nivel_protagonismo
             /\ rows[j].nivel_protagonismo \notin {NULL, rows[i].nivel_protagonismo}

\* the source columns the pivot takes from the table: positions 11 to 15
SourceColumns ==
    IF Len(Consolidated.cols) > 15 THEN Range(SubSeq(Consolidated.cols, 12, 16)) ELSE {}

\* the name "b_c"
Prefixed(b, c) == b \o <<"_", c>>

\* the rows of the de-duplicated table that carry entity e under a brand
BrandRows(merged, e) == {j \in Rows(merged) : merged[j].Id = e /\ merged[j].Marca # NULL}

\* C28: in the pivoted row of an entity e, for every brand b with a row
\* (e, b) in the de-duplicated table and every pivoted source column c, the
\* column "b_c" holds the value of c in row (e, b); every other
\* brand-prefixed column of the row is null, so a brand without a row for e
\* and a row without a brand give nothing.
C28_Theorem ==
    Done("pivot", "cascade") =>
        LET merged == Merged
            source == SourceColumns
        IN \A k \in Rows(df.rows) :
              LET of_e == BrandRows(merged, df.rows[k][Col("Id")])
                  filled == {Prefixed(merged[j].Marca, c) : j \in of_e, c \in source}
              IN /\ \A j \in of_e : \A c \in source :
                       /\ Prefixed(merged[j].Marca, c) \in df.cols
                       /\ df.rows[k][Prefixed(merged[j].Marca, c)] = merged[j][c]
                 /\ \A key \in df.cols \ ({Col("Id")} \cup filled) :
                       df.rows[k][key] = NULL

\* a pivoted row took values from two brands of its entity, next to the
\* row of an entity that lacks one of these brands, of a table that also
\* has a row without a brand
C28_Witness ==
    /\ Done("pivot", "cascade")
    /\ LET merged == Merged
       IN /\ \E i \in Rows(merged) : merged[i].Marca = NULL /\ merged[i].Assunto # NULL
          /\ \E k, m \in Rows(df.rows) :
                /\ Cardinality(BrandRows(merged, df.rows[k][Col("Id")])) >= 2
                /\ \E j \in BrandRows(merged, df.rows[k][Col("Id")]) :
                      /\ df.rows[k][Prefixed(merged[j].Marca, "Assunto")] # NULL
                      /\ df.rows[m][Prefixed(merged[j].Marca, "Assunto")] = NULL
                      /\ ~\E x \in BrandRows(merged, df.rows[m][Col("Id")]) :
                            merged[x].Marca = merged[j].Marca

\* the consolidated file has the columns initialize_consolidated_df gives
\* for some news table
ReconcilerMade ==
    \E n \in 0..Len(ORIGINAL_COLUMNS) :
        inp.cols = ConsolidatedColumns(SubSeq(ORIGINAL_COLUMNS, 1, n))

EnrichmentColumns ==
    {"pv_cadastrados", "pv_nao_cadastrados", "nivel_protagonismo", "texto_nota", "Assunto"}

\* C29 (as claimed): whatever original columns the news table has, the
\* columns the pivot takes by position are the two spokesperson columns, the
\* prominence level, the note text and the subject.
C29_Claim ==
    (last = "pivot" /\ ReconcilerMade /\ inp.rows # <<>>) =>
        SourceColumns = EnrichmentColumns

----------------------------------------------------------------------------
(* Properties of the optional lookup files *)

Categories == {"protagonismo", "esforco", "nota"}

\* no reference file for the category: none found when the settings were
\* loaded, or none to read
NoReferenceFile(category) == category \in inp.unresolved \/ inp[category] = <<>>

ColumnsOf(category) ==
    CASE category = "protagonismo" -> Range(protagonist_columns)
      [] category = "esforco" -> {ESFORCO}
      [] category = "nota" -> {NOTA_DO_IFOOD}

\* C22 (as claimed): when a category has no reference file the lookup passes
\* do not raise, leave the ID columns of the category blank, and the final
\* table goes on to be persisted.
C22_Claim ==
    last = "lookup" =>
        \A category \in Categories : NoReferenceFile(category) =>
            /\ pc = "save"
            /\ \A i \in Rows(df.rows) :
                  \A c \in ColumnsOf(category) \cap Range(df.cols) :
                      df.rows[i][IdCol(c)] = EMPTY

----------------------------------------------------------------------------
(* Properties of the upload hand-off *)

\* the execution has returned after process_final_batch wrote the final
\* table and its timestamped copy
ReturnedAfterPersist ==
    pc = "returned" /\ used = total_steps /\ last = NoException

\* C21: an execution that has persisted the final table returns SUCCESS
\* whatever the upload did, and the outcome of the upload is in the
\* drive_upload record of the result only.
C21_Theorem ==
    ReturnedAfterPersist =>
        /\ inp.status = "SUCCESS"
        /\ df.lote_limpo = base
        /\ inp.drive_upload \in DriveUpload

\* an execution returned after an upload that raised
C21_Witness ==
    /\ ReturnedAfterPersist
    /\ ~inp.drive_upload.success
    /\ "error" \in DOMAIN inp.drive_upload

----------------------------------------------------------------------------
(* src/src/postprocess_spokesperson_ids.py: the exact match of a name.  Here
   a text is the sequence of its characters, inp the arguments of the call
   (name, lookup_keys, cutoff in tenths) and df the pair returned (the
   score in tenths too). *)

None == <<"None">>

\* normalize: strip, NFKD (a letter with an accent becomes the letter and a
\* combining mark), the combining marks dropped, lower case, strip
normalize(s) ==
    LET stripped == RStrip(LStrip(s))
        nfkd(c) == IF c = "á" THEN <<"a", "´">> ELSE <<c>>
        decomposed[i \in 0..Len(stripped)] ==
            IF i = 0 THEN <<>> ELSE decomposed[i - 1] \o nfkd(stripped[i])
        letters == SelectSeq(decomposed[Len(stripped)], LAMBDA c : c # "´")
        lower == [i \in 1..Len(letters) |-> IF letters[i] = "A" THEN "a" ELSE letters[i]]
    IN RStrip(LStrip(lower))

\* a matcher that falls back on the closest key when the cutoff allows it
find_best_match_Fuzzy(name, lookup_keys, cutoff) ==
    LET name_norm == normalize(name)
        close == {k \in lookup_keys : k # <<>> /\ name_norm # <<>> /\ Head(k) = Head(name_norm)}
    IN IF name_norm = <<>> THEN <<None, 0>>
       ELSE IF name_norm \in lookup_keys THEN <<name_norm, 10>>
       ELSE IF cutoff < 10 /\ close # {} THEN <<CHOOSE k \in close : TRUE, cutoff>>
       ELSE <<None, 0>>

\* find_best_match; lookup_keys is the set of the members of the list
find_best_match(name, lookup_keys, cutoff) ==
    LET name_norm == normalize(name)
    IN IF name_norm = <<>> THEN <<None, 0>>
       ELSE IF name_norm \in lookup_keys THEN <<name_norm, 10>>
       ELSE <<None, 0>>

\* a call of find_best_match: a name of up to MaxLen characters, the keys
\* build_lookup_dicts can give (normal forms, that of a name made of
\* combining marks included) or a caller can pass (a key in upper case)
InitMatch ==
    /\ pc = "call"
    /\ \E name \in UNION {[1..n -> {"a", "A", "á", "b", " ", "´"}] : n \in 0..MaxLen} :
       \E lookup_keys \in SUBSET {<<"a">>, <<"a", "b">>, <<"A">>, <<>>} :
       \E cutoff \in {0, 6, 10} :
          inp = [name |-> name, lookup_keys |-> lookup_keys, cutoff |-> cutoff]
    /\ df = <<>>
    /\ prev = <<>>
    /\ base = <<>>
    /\ used = 0
    /\ last = "start"

Match ==
    /\ pc = "call"
    /\ pc' = "returned"
    /\ df' = find_best_match(inp.name, inp.lookup_keys, inp.cutoff)
    /\ UNCHANGED <<base, prev, inp, used, last>>

SpecMatch == InitMatch /\ [][Match]_vars

----------------------------------------------------------------------------
(* Properties of the exact match *)

\* the letter a character stands for, without accent and in lower case
\* (nothing for a combining mark)
BaseLetter(c) ==
    CASE c \in {"A", "á"} -> <<"a">>
      [] c = "´" -> <<>>
      [] OTHER -> <<c>>

RECURSIVE Folded(_)
Folded(s) == IF s = <<>> THEN <<>> ELSE BaseLetter(Head(s)) \o Folded(Tail(s))

\* the normalized form of the name of the call
NormalForm == RStrip(LStrip(Folded(RStrip(LStrip(inp.name)))))

\* C23 (as claimed): the call returns (key, 1.0) exactly when the normalized
\* form of the name is one of the lookup keys, and (None, 0.0) for every
\* other name and for the empty name.
C23_Original ==
    pc = "returned" =>
        df = IF RStrip(LStrip(inp.name)) # <<>> /\ NormalForm \in inp.lookup_keys
             THEN <<NormalForm, 10>> ELSE <<None, 0>>

\* C23 (amended): the call returns (key, 1.0) exactly when the normalized
\* form of the name is not empty and is one of the lookup keys, and
\* (None, 0.0) otherwise, whatever the cutoff.
C23_Amended ==
    pc = "returned" =>
        df = IF NormalForm # <<>> /\ NormalForm \in inp.lookup_keys
             THEN <<NormalForm, 10>> ELSE <<None, 0>>

\* a name with an accent and a capital matched its key under a cutoff below
\* 1.0 that a close key would have passed
C23_Witness ==
    /\ pc = "returned"
    /\ inp.name = <<"á", "b">>
    /\ inp.cutoff = 6
    /\ inp.lookup_keys = {<<"a">>, <<"a", "b">>}
    /\ df = <<<<"a", "b">>, 10>>


\* ---------------------------------------------------------------------------
\* src/api_fetch.py: fetch_api_data.  An endpoint of the configuration is
\* its position in api_configs, and its records are named by that position.
\*   inp   the configuration: number of endpoints and max_retries
\*   last  position of the endpoint the for loop is at
\*   used  retry_count of that endpoint
\*   df    all_dfs, the per-endpoint tables fetched so far
\*   prev  the endpoints whose request returned HTTP 200
\*   base  the table returned
\* ---------------------------------------------------------------------------

Responses == {"200", "500", "404", "RequestException"}

InitFetch ==
    /\ pc = "post"
    /\ inp \in [endpoints : 0..MaxRows, max_retries : 0..MaxRuns]
    /\ last = 1
    /\ used = 0
    /\ df = <<>>
    /\ prev = {}
    /\ base = <<>>

\* One pass of the body of the while loop: a request and the branch its
\* response takes.
Post ==
    /\ pc = "post"
    /\ last <= inp.endpoints
    /\ \E response \in Responses :
        IF response = "200"
        THEN /\ df' = Append(df, last)
             /\ prev' = prev \cup {last}
             /\ last' = last + 1
             /\ used' = 0
        ELSE IF response = "500" /\ used < inp.max_retries
        THEN /\ df' = <<>>
             /\ used' = used + 1
             /\ UNCHANGED <<prev, last>>
        ELSE /\ last' = last + 1
             /\ used' = 0
             /\ UNCHANGED <<df, prev>>
    /\ UNCHANGED <<pc, inp, base>>

\* After the loop: nothing fetched returns the empty table, otherwise the
\* concatenation is saved (which may raise) and returned.
FetchReturn ==
    /\ pc = "post"
    /\ last > inp.endpoints
    /\ \E saved \in BOOLEAN :
        IF df = <<>> \/ saved
        THEN pc' = "returned" /\ base' = df
        ELSE pc' = "raised" /\ base' = <<>>
    /\ UNCHANGED <<df, prev, inp, used, last>>

SpecFetch == InitFetch /\ [][Post \/ FetchReturn]_vars

\* C30: the table returned contains the records of every endpoint whose
\* request returned HTTP 200, whatever retries after HTTP 500 took place.
C30_Claim ==
    pc = "returned" => \A e \in prev : \E i \in 1..Len(base) : base[i] = e


\* ---------------------------------------------------------------------------
\* src/tasks.py: two executions of _execute_pipeline, the manual task and
\* the scheduled task, on a worker that runs them at the same time.  Both
\* use settings.arq_consolidado and settings.arq_lote_final.  A table is
\* the set of the news Ids it holds.
\*   pc    each task's position in _execute_pipeline
\*   inp   each task's df_consol, the table its filter step returns
\*   base  the file arq_consolidado: its table and the task that wrote it
\*   df    what each task's create_batch_update_sheet loaded
\*   prev  the file arq_lote_final
\* ---------------------------------------------------------------------------

Tasks == {"process_pipeline", "process_pipeline_scheduled"}

InitRace ==
    /\ pc = [t \in Tasks |-> "queued"]
    /\ inp = [t \in Tasks |-> {}]
    /\ base = [table |-> {}, by |-> "nobody"]
    /\ df = [t \in Tasks |-> [table |-> {}, by |-> "nobody"]]
    /\ prev = {}
    /\ used = 0
    /\ last = "start"

\* A task is taken by the worker and runs steps 1 to 12: df_consol is built
\* from what it fetched.
process_pipeline ==
    \E t \in Tasks :
        /\ pc[t] = "queued"
        /\ \E df_consol \in SUBSET (1..MaxId) :
            inp' = [inp EXCEPT ![t] = df_consol]
        /\ pc' = [pc EXCEPT ![t] = "consolidated"]
        /\ UNCHANGED <<base, df, prev, used, last>>

\* Step 13: the filtered table is written to arq_consolidado.
filter_and_save_consolidated ==
    \E t \in Tasks :
        /\ pc[t] = "consolidated"
        /\ base' = [table |-> inp[t], by |-> t]
        /\ pc' = [pc EXCEPT ![t] = "saved"]
        /\ UNCHANGED <<inp, df, prev, used, last>>

read_excel_InMemory(t) == [table |-> inp[t], by |-> base.by]

\* pd.read_excel(input_path): the file as it is when the task reads it.
read_excel(t) == base

\* Step 14: the consolidated file is loaded, pivoted and written to
\* arq_lote_final.
create_batch_update_sheet ==
    \E t \in Tasks :
        /\ pc[t] = "saved"
        /\ df' = [df EXCEPT ![t] = read_excel(t)]
        /\ prev' = read_excel(t).table
        /\ pc' = [pc EXCEPT ![t] = "pivoted"]
        /\ UNCHANGED <<inp, base, used, last>>

SpecRace ==
    InitRace /\ [][process_pipeline \/ filter_and_save_consolidated
                    \/ create_batch_update_sheet]_vars

\* C24: nothing serializes the two tasks: the table a task pivots is the
\* table filtered by whichever task wrote the consolidated file last before
\* the read, which the witness shows to be the other task's table in a
\* reachable interleaving.
C24_Theorem ==
    \A t \in Tasks :
        pc[t] = "pivoted" => df[t].by \in Tasks /\ df[t].table = inp[df[t].by]

\* A task has pivoted the table the other task's filter step wrote, and it
\* is not the table it filtered itself.
C24_Witness ==
    \E t \in Tasks :
        /\ pc[t] = "pivoted"
        /\ df[t].by \in Tasks \ {t}
        /\ df[t].table # inp[t]

====
